---------------------------- MODULE Spec2Model ----------------------------
(***************************************************************************)
(* Model of the Engie QC example of OpenOA:                                *)
(*   - Project_Engie.dst_shifter   (project_engie_scada.py, 178-237)       *)
(*   - Project_Engie.prepare       (project_engie_scada.py, 38-176)        *)
(*   - EngieQC.prepare             (engie_QC.py, 31-41)                    *)
(* Timestamps are naive datetimes, held as whole seconds since             *)
(* 1970-01-01 00:00:00.  A pandas Series / DataFrame is a sequence of      *)
(* values / of row records, in row order.                                  *)
(***************************************************************************)
EXTENDS Integers, Sequences, FiniteSets, TLC

VARIABLES
    pc,          \* position of the running method
    dt,          \* dst_shifter: argument dt (series of local timestamps)
    num_hours,   \* dst_shifter: argument num_hours
    dst,         \* dst_shifter: argument dst
    dst_subset,  \* dst_shifter: argument dst_subset
    dt_shift,    \* dst_shifter: local dt_shift
    dst_dates,   \* dst_shifter: local dst_dates (the transition table)
    years,       \* dst_shifter: local years (dt.dt.year.unique())
    y,           \* dst_shifter: loop index (1-based here, 0-based in numpy)
    ret,         \* dst_shifter: what the call produced
    turbs,       \* EngieQC: self._turbs, one record per turbine object
    ti,          \* EngieQC.prepare: position of the loop over self._turbs
    scads,       \* EngieQC.prepare: local scads (list of dataframes)
    qc_scada,    \* EngieQC: self._scada.df
    scada_csv,   \* Project_Engie: the rows of engie_scada.csv
    meter_csv,   \* Project_Engie: the rows of engie_meter.csv
    curtail_csv, \* Project_Engie: the rows of engie_avail_curt.csv
    scada,       \* Project_Engie: self._scada.df
    meter,       \* Project_Engie: self._meter.df
    curtail      \* Project_Engie: self._curtail.df

shiftVars == <<dt, num_hours, dst, dst_subset, dt_shift, dst_dates, years, y, ret>>

mergeVars == <<turbs, ti, scads, qc_scada>>

prepVars == <<scada_csv, meter_csv, curtail_csv, scada, meter, curtail>>

vars == <<pc, shiftVars, mergeVars, prepVars>>

-----------------------------------------------------------------------------
(* Bounds of the model *)

\* longest timestamp series handed to dst_shifter
MaxLen == 2

\* most turbines handed to EngieQC
MaxTurbs == 2

\* most SCADA rows one turbine delivers
MaxTurbRows == 3

\* most rows in the three files Project_Engie.prepare loads, taken together
MaxFileRows == 3

-----------------------------------------------------------------------------
(* Calendar arithmetic: what pd.to_datetime and Series.dt.year compute *)

\* days from 1970-01-01 to the civil date yy-mm-dd (proleptic Gregorian)
DaysFromCivil(yy, mm, dd) ==
    LET yr  == IF mm <= 2 THEN yy - 1 ELSE yy
        era == yr \div 400
        yoe == yr - era * 400
        mp  == (mm + 9) % 12
        doy == (153 * mp + 2) \div 5 + dd - 1
        doe == yoe * 365 + yoe \div 4 - yoe \div 100 + doy
    IN  era * 146097 + doe - 719468

\* pd.to_datetime('%Y-%m-%d %H:%M:%S')
ToDatetime(yy, mm, dd, h, mi, s) ==
    DaysFromCivil(yy, mm, dd) * 86400 + h * 3600 + mi * 60 + s

\* pd.to_datetime of a table string 'M/D/YY H:MM', held as <<M, D, YY, H, MM>>;
\* the two-digit year is read as 20YY
ToDatetimeShort(str) ==
    ToDatetime(2000 + str[3], str[1], str[2], str[4], str[5], 0)

\* pd.DateOffset(hours = n) added to a naive timestamp
AddHours(t, n) == t + n * 3600

\* Series.dt.year of one timestamp: the year whose January 1 00:00:00 is the
\* last one at or before t (found from the mean Gregorian year, then adjusted)
YearOf(t) ==
    LET g == 1970 + t \div 31556952
    IN  IF t < ToDatetime(g, 1, 1, 0, 0, 0) THEN g - 1
        ELSE IF t >= ToDatetime(g + 1, 1, 1, 0, 0, 0) THEN g + 1
        ELSE g

\* Series.unique(): the distinct values in order of first appearance
RECURSIVE Unique(_)
Unique(s) ==
    IF s = <<>> THEN <<>>
    ELSE LET n    == Len(s)
             init == Unique(SubSeq(s, 1, n - 1))
         IN  IF \E i \in 1 .. n - 1 : s[i] = s[n] THEN init
             ELSE Append(init, s[n])

SeqsUpTo(S, n) == UNION {[1 .. k -> S] : k \in 0 .. n}

-----------------------------------------------------------------------------
(* dst_shifter: the transition tables *)

TableYears == <<2008, 2009, 2010, 2011, 2012, 2013, 2014, 2015, 2016, 2017, 2018, 2019>>

AmericanDates ==
    [year  |-> TableYears,
     start |-> << <<3,9,8,2,0>>, <<3,8,9,2,0>>, <<3,14,10,2,0>>, <<3,13,11,2,0>>,
                  <<3,11,12,2,0>>, <<3,10,13,2,0>>, <<3,9,14,2,0>>, <<3,8,15,2,0>>,
                  <<3,13,16,2,0>>, <<3,12,17,2,0>>, <<3,11,18,2,0>>, <<3,10,19,2,0>> >>,
     end   |-> << <<11,2,8,2,0>>, <<11,1,9,2,0>>, <<11,7,10,2,0>>, <<11,6,11,2,0>>,
                  <<11,4,12,2,0>>, <<11,3,13,2,0>>, <<11,2,14,2,0>>, <<11,1,15,2,0>>,
                  <<11,6,16,2,0>>, <<11,5,17,2,0>>, <<11,4,18,2,0>>, <<11,3,19,2,0>> >>]

EuropeanDates ==
    [year  |-> TableYears,
     start |-> << <<3,30,8,2,0>>, <<3,29,9,2,0>>, <<3,28,10,2,0>>, <<3,27,11,2,0>>,
                  <<3,25,12,2,0>>, <<3,31,13,2,0>>, <<3,30,14,2,0>>, <<3,29,15,2,0>>,
                  <<3,27,16,2,0>>, <<3,26,17,2,0>>, <<3,25,18,2,0>>, <<3,31,19,2,0>> >>,
     end   |-> << <<10,26,8,3,0>>, <<10,25,9,3,0>>, <<10,31,10,3,0>>, <<10,30,11,3,0>>,
                  <<10,28,12,3,0>>, <<10,27,13,3,0>>, <<10,26,14,3,0>>, <<10,25,15,3,0>>,
                  <<10,30,16,3,0>>, <<10,29,17,3,0>>, <<10,28,18,3,0>>, <<10,27,19,3,0>> >>]

NoDates == [year |-> <<>>, start |-> <<>>, end |-> <<>>]

\* dst_dates.loc[dst_dates['year'] == yr]: the row positions of the table for yr
DstData(dates, yr) == {r \in 1 .. Len(dates.year) : dates.year[r] = yr}

\* dst_data[col].values[0] after pd.to_datetime: the first matching row
FirstValue(dates, yr, col) ==
    LET r == CHOOSE r \in DstData(dates, yr) : \A q \in DstData(dates, yr) : r <= q
    IN  ToDatetimeShort(dates[col][r])

-----------------------------------------------------------------------------
(* dst_shifter: the per-year windows of the European branch (lines 213-223) *)

spring_start(dates, yr) == FirstValue(dates, yr, "start")

spring_end(dates, yr) == AddHours(FirstValue(dates, yr, "end"), -1)

fall_start_1(dates, yr) == AddHours(FirstValue(dates, yr, "end"), -1)

fall_end_1(yr) == ToDatetime(yr, 12, 31, 23, 59, 59)

fall_start_2(yr) == ToDatetime(yr, 1, 1, 0, 0, 0)

fall_end_2(dates, yr) == FirstValue(dates, yr, "start")

\* the boolean masks of lines 226, 230 and 234 over a series
ind1(dates, yr, series) ==
    [i \in 1 .. Len(series) |->
        series[i] > spring_start(dates, yr) /\ series[i] < spring_end(dates, yr)]

ind2(dates, yr, series) ==
    [i \in 1 .. Len(series) |->
        series[i] >= fall_start_1(dates, yr) /\ series[i] < fall_end_1(yr)]

ind3(dates, yr, series) ==
    [i \in 1 .. Len(series) |->
        series[i] >= fall_start_2(yr) /\ series[i] < fall_end_2(dates, yr)]

\* a sign slip in the spring offset
SpringHoursPlusOne(nh) == nh + 1

\* the offsets the three assignments add (lines 227, 231, 235)
SpringHours(nh) == nh - 1

FallHours(nh) == nh

\* dt_shift[ind] = dt[ind] + pd.DateOffset(hours = h): masked assignment
MaskedShift(shifted, series, mask, h) ==
    [i \in 1 .. Len(series) |->
        IF mask[i] THEN AddHours(series[i], h) ELSE shifted[i]]

\* one pass of the loop body for year yr (lines 225-235), in statement order
ShiftYear(dates, yr, series, shifted, nh) ==
    LET s1 == MaskedShift(shifted, series, ind1(dates, yr, series), SpringHours(nh))
        s2 == MaskedShift(s1, series, ind2(dates, yr, series), FallHours(nh))
    IN  MaskedShift(s2, series, ind3(dates, yr, series), FallHours(nh))

\* dt + pd.DateOffset(hours = num_hours) on the whole series (line 192)
FlatShifted(series, nh) == [i \in 1 .. Len(series) |-> AddHours(series[i], nh)]

\* values a call can produce
Pending == [kind |-> "pending", series |-> <<>>]

ReturnsNone == [kind |-> "None", series |-> <<>>]

ReturnsSeries(s) == [kind |-> "Series", series |-> s]

RaisesIndexError == [kind |-> "IndexError", series |-> <<>>]

-----------------------------------------------------------------------------
(* dst_shifter: the inputs explored *)

\* num_hours values tried: -2 is the value of the calls in prepare (lines 68, 122, 141)
HoursTried == {-2, 1}

\* dst_subset values tried: 'French' is the value of the calls in prepare
SubsetsTried == {"American", "European", "French"}

\* years of the table, and one year on either side that the table lacks
InTable(yr) == \E r \in 1 .. Len(TableYears) : TableYears[r] = yr

YearsTried == 2007 .. 2020

\* timestamps of year yr next to the transitions and the ends of the year
NearTimes(yr) ==
    LET S == FirstValue(EuropeanDates, yr, "start")
        F == FirstValue(EuropeanDates, yr, "end")
    IN  { ToDatetime(yr, 1, 1, 0, 0, 0),
          S - 1800, S + 1800,
          AddHours(F, -1) - 1, AddHours(F, -1),
          ToDatetime(yr, 12, 31, 23, 59, 58) }

\* the same, with the spring transition instant and the last second of the year
EdgeTimes(yr) ==
    NearTimes(yr) \cup { FirstValue(EuropeanDates, yr, "start"),
                         ToDatetime(yr, 12, 31, 23, 59, 59) }

\* timestamps of any year
PlainTimes(yr) == { ToDatetime(yr, 1, 1, 0, 0, 0), ToDatetime(yr, 7, 1, 12, 0, 0) }

\* the timestamps a series starting in year yr is drawn from
TimesTried(yr) ==
    (IF InTable(yr) THEN EdgeTimes(yr) ELSE PlainTimes(yr)) \cup PlainTimes(yr + 1)

-----------------------------------------------------------------------------
(* The parts of the state a run of one method does not touch *)

ShiftIdle ==
    /\ dt = <<>>
    /\ num_hours = 0
    /\ dst = FALSE
    /\ dst_subset = "American"
    /\ dt_shift = <<>>
    /\ dst_dates = NoDates
    /\ years = <<>>
    /\ y = 0
    /\ ret = Pending

MergeIdle ==
    /\ turbs = <<>>
    /\ ti = 0
    /\ scads = <<>>
    /\ qc_scada = <<>>

PrepareIdle ==
    /\ scada_csv = <<>>
    /\ meter_csv = <<>>
    /\ curtail_csv = <<>>
    /\ scada = <<>>
    /\ meter = <<>>
    /\ curtail = <<>>

-----------------------------------------------------------------------------
(* dst_shifter as a state machine *)

InitShift ==
    /\ pc = "call"
    /\ \E yr \in YearsTried :
          \/ InTable(yr) /\ dt \in SeqsUpTo(NearTimes(yr), MaxLen) \ {<<>>}
          \/ dt \in SeqsUpTo(TimesTried(yr), MaxLen) \ {<<>>}
    /\ num_hours \in HoursTried
    /\ dst \in BOOLEAN
    /\ dst_subset \in (IF dst THEN SubsetsTried ELSE {"American"})
    /\ dt_shift = <<>>
    /\ dst_dates = NoDates
    /\ years = <<>>
    /\ y = 0
    /\ ret = Pending
    /\ MergeIdle
    /\ PrepareIdle

\* lines 189-192: dst == False; the return of line 237 sits inside the else
\* branch, so this path falls off the end of the function and yields None
FlatShift ==
    /\ pc = "call"
    /\ dst = FALSE
    /\ dt_shift' = FlatShifted(dt, num_hours)
    /\ ret' = ReturnsNone
    /\ pc' = "done"
    /\ UNCHANGED <<dt, num_hours, dst, dst_subset, dst_dates, years, y, mergeVars, prepVars>>

\* lines 189, 194-199, 237: the American table is built and never used
AmericanBranch ==
    /\ pc = "call"
    /\ dst = TRUE
    /\ dst_subset = "American"
    /\ dt_shift' = dt
    /\ dst_dates' = AmericanDates
    /\ ret' = ReturnsSeries(dt_shift')
    /\ pc' = "done"
    /\ UNCHANGED <<dt, num_hours, dst, dst_subset, years, y, mergeVars, prepVars>>

\* lines 189, 200-208: the European table and the years of the record
EuropeanBranch ==
    /\ pc = "call"
    /\ dst = TRUE
    /\ dst_subset # "American"
    /\ dt_shift' = dt
    /\ dst_dates' = EuropeanDates
    /\ years' = Unique([i \in 1 .. Len(dt) |-> YearOf(dt[i])])
    /\ y' = 1
    /\ pc' = "loop"
    /\ UNCHANGED <<dt, num_hours, dst, dst_subset, ret, mergeVars, prepVars>>

\* lines 210-235: one iteration, for a year the table holds
YearIteration ==
    /\ pc = "loop"
    /\ y <= Len(years)
    /\ DstData(dst_dates, years[y]) # {}
    /\ dt_shift' = ShiftYear(dst_dates, years[y], dt, dt_shift, num_hours)
    /\ y' = y + 1
    /\ UNCHANGED <<pc, dt, num_hours, dst, dst_subset, dst_dates, years, ret, mergeVars, prepVars>>

\* lines 211-226: dst_data is empty, spring_start.values[0] raises IndexError
YearLookupFails ==
    /\ pc = "loop"
    /\ y <= Len(years)
    /\ DstData(dst_dates, years[y]) = {}
    /\ ret' = RaisesIndexError
    /\ pc' = "done"
    /\ UNCHANGED <<dt, num_hours, dst, dst_subset, dt_shift, dst_dates, years, y, mergeVars, prepVars>>

\* line 237, reached when the loop is exhausted
ReturnShifted ==
    /\ pc = "loop"
    /\ y > Len(years)
    /\ ret' = ReturnsSeries(dt_shift)
    /\ pc' = "done"
    /\ UNCHANGED <<dt, num_hours, dst, dst_subset, dt_shift, dst_dates, years, y, mergeVars, prepVars>>

NextShift ==
    \/ FlatShift
    \/ AmericanBranch
    \/ EuropeanBranch
    \/ YearIteration
    \/ YearLookupFails
    \/ ReturnShifted

SpecShift == InitShift /\ [][NextShift]_vars

-----------------------------------------------------------------------------
(* EngieQC.prepare: dataframes of one turbine and their merge *)

\* DataFrame.sort_index(): the index is the timestamp
IsSortedByTime(df) == \A i, j \in 1 .. Len(df) : i < j => df[i].time <= df[j].time

\* sort_index(inplace=True) with the default kind='quicksort': an index that is
\* already monotonic is left as it is; otherwise the rows come out ascending
\* by timestamp, and the order of rows with equal timestamps is whatever the
\* sort of the build leaves (quicksort is not stable)
SortIndex(df) ==
    IF IsSortedByTime(df) THEN {df}
    ELSE { [i \in 1 .. Len(df) |-> df[f[i]]] :
             f \in { g \in Permutations(1 .. Len(df)) :
                       \A i, j \in 1 .. Len(df) :
                           i < j => df[g[i]].time <= df[g[j]].time } }

\* i.scada.df['ID'] = i._name
TagID(df, name) ==
    [i \in 1 .. Len(df) |->
        [time |-> df[i].time, wtur_W_avg |-> df[i].wtur_W_avg,
         wmet_wDir_avg |-> df[i].wmet_wDir_avg, wmet_wdspd_avg |-> df[i].wmet_wdspd_avg,
         ID |-> name]]

\* pd.concat(scads): the frames one after the other, in list order
RECURSIVE Concat(_)
Concat(frames) ==
    IF frames = <<>> THEN <<>>
    ELSE Concat(SubSeq(frames, 1, Len(frames) - 1)) \o frames[Len(frames)]

\* df[['time', 'wtur_W_avg', 'wmet_wDir_avg', 'wmet_wdspd_avg', 'ID']]
SelectColumns(df) ==
    [i \in 1 .. Len(df) |->
        [time |-> df[i].time, wtur_W_avg |-> df[i].wtur_W_avg,
         wmet_wDir_avg |-> df[i].wmet_wDir_avg, wmet_wdspd_avg |-> df[i].wmet_wdspd_avg,
         ID |-> df[i].ID]]

\* TurbineEngieOpenData.prepare(): fills i.scada.df with the turbine's rows,
\* indexed by timestamp, in the order the data platform delivers them
TurbinePrepare(turb) == turb.rows

\* the turbine names and the rows a turbine may deliver
TurbNames == <<"R80711", "R80721", "R80736">>

TurbRows ==
    { [time |-> ToDatetime(2016, 1, 1, 0, 0, 0) + 600 * n, wtur_W_avg |-> w,
       wmet_wDir_avg |-> 90, wmet_wdspd_avg |-> 5] : n \in {0, 1}, w \in {100, 200} }

InitMerge ==
    /\ pc = "qc_loop"
    /\ ShiftIdle
    /\ PrepareIdle
    /\ \E n \in 1 .. MaxTurbs :
          turbs \in { [i \in 1 .. n |-> [name |-> TurbNames[i], rows |-> tabs[i], df |-> <<>>]] :
                        tabs \in [1 .. n -> SeqsUpTo(TurbRows, MaxTurbRows)] }
    /\ ti = 1
    /\ scads = <<>>
    /\ qc_scada = <<>>

\* lines 33-37: one pass of the loop over self._turbs
TurbIteration ==
    /\ pc = "qc_loop"
    /\ ti <= Len(turbs)
    /\ \E sorted \in SortIndex(TagID(TurbinePrepare(turbs[ti]), turbs[ti].name)) :
          /\ turbs' = [turbs EXCEPT ![ti].df = sorted]
          /\ scads' = Append(scads, sorted)
    /\ ti' = ti + 1
    /\ UNCHANGED <<pc, qc_scada, shiftVars, prepVars>>

\* line 39: the loop is over, the frames are concatenated
ConcatFrames ==
    /\ pc = "qc_loop"
    /\ ti > Len(turbs)
    /\ qc_scada' = Concat(scads)
    /\ pc' = "qc_select"
    /\ UNCHANGED <<turbs, ti, scads, shiftVars, prepVars>>

\* line 41: the five columns kept
KeepColumns ==
    /\ pc = "qc_select"
    /\ qc_scada' = SelectColumns(qc_scada)
    /\ pc' = "done"
    /\ UNCHANGED <<turbs, ti, scads, shiftVars, prepVars>>

NextMerge ==
    \/ TurbIteration
    \/ ConcatFrames
    \/ KeepColumns

SpecMerge == InitMerge /\ [][NextMerge]_vars

-----------------------------------------------------------------------------
(* Project_Engie.prepare: the dataframe operations it uses *)

\* np.nan in a numeric column: a marker that no comparison accepts
NaN == -999999

\* the bounds of lines 79-81 and the threshold of lines 85 and 87
WdspdMin == 0

WdspdMax == 40

PowerMin == -1000

PowerMax == 2200

WdirMin == 0

WdirMax == 360

UnresponsiveThreshold == 3

\* the sampling interval of self._scada_freq = '10T', in minutes
ScadaFreqMinutes == 10

\* pd.to_datetime of a file's time string, held as <<Y, M, D, h, m, s>> for
\* 'Y-M-D h:m:s' and as <<Y, M, D, h, m>> for 'Y-M-D h:m'
ParseTime(str) ==
    ToDatetime(str[1], str[2], str[3], str[4], str[5], IF Len(str) = 6 THEN str[6] ELSE 0)

\* the rows of df at the positions in keep, in row order
RECURSIVE Pick(_, _, _)
Pick(df, keep, n) ==
    IF n = 0 THEN <<>>
    ELSE IF n \in keep THEN Append(Pick(df, keep, n - 1), df[n])
    ELSE Pick(df, keep, n - 1)

\* drop_duplicates(subset=['time', 'ID']) with keep='last'
DropDuplicatesKeepLast(df) ==
    Pick(df, {i \in 1 .. Len(df) :
                ~\E j \in i + 1 .. Len(df) : df[j].time = df[i].time /\ df[j].ID = df[i].ID},
         Len(df))

\* drop_duplicates(subset=['time', 'ID']): the default keep='first' (line 65)
DropDuplicatesTimeID(df) ==
    Pick(df, {i \in 1 .. Len(df) :
                ~\E j \in 1 .. i - 1 : df[j].time = df[i].time /\ df[j].ID = df[i].ID},
         Len(df))

\* drop_duplicates(subset=['time'], keep=False): every copy goes (lines 119, 140)
DropDuplicatesTimeAll(df) ==
    Pick(df, {i \in 1 .. Len(df) :
                ~\E j \in 1 .. Len(df) : j # i /\ df[j].time = df[i].time},
         Len(df))

\* v >= lo and v <= hi on a float column: False for NaN
GreaterEqual(v, lo) == v # NaN /\ v >= lo

LessEqual(v, hi) == v # NaN /\ v <= hi

Greater(v, lo) == v # NaN /\ v > lo

\* a strict upper bound in place of <=
WdspdInRangeStrict(r) ==
    GreaterEqual(r.wmet_wdspd_avg, WdspdMin) /\ r.wmet_wdspd_avg # NaN /\ r.wmet_wdspd_avg < WdspdMax

\* the row masks of lines 79, 80 and 81
WdspdInRange(r) ==
    GreaterEqual(r.wmet_wdspd_avg, WdspdMin) /\ LessEqual(r.wmet_wdspd_avg, WdspdMax)

PowerInRange(r) ==
    GreaterEqual(r.wtur_W_avg, PowerMin) /\ LessEqual(r.wtur_W_avg, PowerMax)

WdirInRange(r) ==
    GreaterEqual(r.wmet_wDir_avg, WdirMin) /\ LessEqual(r.wmet_wDir_avg, WdirMax)

\* lines 79-81: three boolean-mask selections, one after the other
RangeFilter(df) ==
    SelectSeq(SelectSeq(SelectSeq(df, WdspdInRange), PowerInRange), WdirInRange)

\* filters.unresponsive_flag(column, threshold): True at every position of a
\* run of at least threshold consecutive equal non-null values
UnresponsiveFlag(col, threshold) ==
    [i \in 1 .. Len(col) |->
        \E a \in 1 .. i : \E b \in i .. Len(col) :
            /\ b - a + 1 >= threshold
            /\ col[a] # NaN
            /\ \A j \in a .. b : col[j] = col[a]]

Column(df, name) == [i \in 1 .. Len(df) |-> df[i][name]]

\* df.loc[flag, name] = np.nan
SetNaN(df, flag, name) ==
    [i \in 1 .. Len(df) |-> IF flag[i] THEN [df[i] EXCEPT ![name] = NaN] ELSE df[i]]

\* lines 85-88: wind speed first, then wind direction, on the whole column
FlagUnresponsive(df) ==
    LET f1 == UnresponsiveFlag(Column(df, "wmet_wdspd_avg"), UnresponsiveThreshold)
        d1 == SetNaN(df, f1, "wmet_wdspd_avg")
        f2 == UnresponsiveFlag(Column(d1, "wmet_wDir_avg"), UnresponsiveThreshold)
    IN  SetNaN(d1, f2, "wmet_wDir_avg")

\* un.convert_power_to_energy(power, '10T'): power times the sampling interval
\* in hours, held as the exact fraction <<numerator, denominator>>
ConvertPowerToEnergy(p, minutes) == IF p = NaN THEN <<NaN, 1>> ELSE <<p * minutes, 60>>

\* lines 91-109: kW to W, energy in kWh, the rename to the IEC names and the
\* drop of 'time.1'
ConvertAndRename(df) ==
    [i \in 1 .. Len(df) |->
        LET watts == IF df[i].wtur_W_avg = NaN THEN NaN ELSE df[i].wtur_W_avg * 1000
            wh    == ConvertPowerToEnergy(watts, ScadaFreqMinutes)
        IN  [row            |-> df[i].row,
             time           |-> df[i].time,
             id             |-> df[i].ID,
             wtur_W_avg     |-> watts,
             wmet_wdspd_avg |-> df[i].wmet_wdspd_avg,
             wmet_HorWd_Dir |-> df[i].wmet_wDir_avg,
             energy_kwh     |-> <<wh[1], wh[2] * 1000>>]]

\* load(...) followed by pd.to_datetime on 'time': the rows of the file in file
\* order; row is the position in the file (the RangeIndex load gives, which
\* set_index replaces by the timestamp; it is kept to name the row)
LoadParsed(csv) ==
    [i \in 1 .. Len(csv) |-> [[csv[i] EXCEPT !.time = ParseTime(csv[i].time)] EXCEPT !.row = i]]

\* line 128: energy_kwh > 0
MeterFilter(df) == LET Positive(r) == Greater(r.energy_kwh, 0) IN SelectSeq(df, Positive)

\* line 145: dropna() drops a row with a null in any column
DropNa(df) ==
    LET Full(r) == r.availability_kwh # NaN /\ r.curtailment_kwh # NaN
    IN  SelectSeq(df, Full)

-----------------------------------------------------------------------------
(* Project_Engie.prepare: the files explored *)

T1 == <<2016, 1, 1, 0, 0, 0>>

T1short == <<2016, 1, 1, 0, 0>>

T2 == <<2016, 1, 1, 0, 10, 0>>

T3 == <<2016, 1, 1, 0, 20, 0>>

ScadaRow(t, id, ws, w, wd) ==
    [row |-> 0, time |-> t, time_1 |-> t, ID |-> id,
     wmet_wdspd_avg |-> ws, wtur_W_avg |-> w, wmet_wDir_avg |-> wd]

\* steady readings of two turbines, repeated keys with other readings, and
\* readings on and beyond each bound
ScadaFileRows ==
    { ScadaRow(T1, "R80711", 5, 100, 90),
      ScadaRow(T2, "R80711", 5, 100, 90),
      ScadaRow(T3, "R80711", 5, 100, 90),
      ScadaRow(T1, "R80721", 5, 100, 90),
      ScadaRow(T2, "R80721", 5, 100, 90),
      ScadaRow(T1short, "R80711", 40, 2200, 360),
      ScadaRow(T2, "R80721", 0, -1000, 0),
      ScadaRow(T2, "R80711", 41, 100, 90),
      ScadaRow(T2, "R80711", -1, 100, 90),
      ScadaRow(T3, "R80711", 6, 2201, 90),
      ScadaRow(T3, "R80711", 6, -1001, 90),
      ScadaRow(T1, "R80721", 5, 100, 361),
      ScadaRow(T1, "R80721", 5, 100, -1),
      ScadaRow(T3, "R80721", NaN, 100, 90) }

MeterFileRows ==
    { [row |-> 0, time |-> T1, energy_kwh |-> 5],
      [row |-> 0, time |-> T1short, energy_kwh |-> 7],
      [row |-> 0, time |-> T2, energy_kwh |-> 5],
      [row |-> 0, time |-> T2, energy_kwh |-> 0] }

CurtailFileRows ==
    { [row |-> 0, time |-> T1, availability_kwh |-> 1, curtailment_kwh |-> 0],
      [row |-> 0, time |-> T1short, availability_kwh |-> 2, curtailment_kwh |-> 0],
      [row |-> 0, time |-> T2, availability_kwh |-> 1, curtailment_kwh |-> 0],
      [row |-> 0, time |-> T2, availability_kwh |-> NaN, curtailment_kwh |-> 0] }

-----------------------------------------------------------------------------
(* Project_Engie.prepare as a state machine *)

InitPrepare ==
    /\ pc = "scada_load"
    /\ ShiftIdle
    /\ MergeIdle
    /\ \E a \in 0 .. MaxFileRows : \E b \in 0 .. MaxFileRows - a :
          /\ scada_csv \in [1 .. a -> ScadaFileRows]
          /\ meter_csv \in [1 .. b -> MeterFileRows]
          /\ curtail_csv \in SeqsUpTo(CurtailFileRows, MaxFileRows - a - b)
    /\ scada = <<>>
    /\ meter = <<>>
    /\ curtail = <<>>

\* lines 57-62: load the SCADA file, parse 'time'
ScadaLoad ==
    /\ pc = "scada_load"
    /\ scada' = LoadParsed(scada_csv)
    /\ pc' = "scada_dedup"
    /\ UNCHANGED <<scada_csv, meter_csv, curtail_csv, meter, curtail, shiftVars, mergeVars>>

\* lines 65-75: drop repeated (time, ID), index by time
ScadaDropDuplicates ==
    /\ pc = "scada_dedup"
    /\ scada' = DropDuplicatesTimeID(scada)
    /\ pc' = "scada_filter"
    /\ UNCHANGED <<scada_csv, meter_csv, curtail_csv, meter, curtail, shiftVars, mergeVars>>

\* lines 77-81: the range filters
ScadaRangeFilter ==
    /\ pc = "scada_filter"
    /\ scada' = RangeFilter(scada)
    /\ pc' = "scada_flag"
    /\ UNCHANGED <<scada_csv, meter_csv, curtail_csv, meter, curtail, shiftVars, mergeVars>>

\* lines 83-88: the unresponsive-sensor flags
ScadaFlagUnresponsive ==
    /\ pc = "scada_flag"
    /\ scada' = FlagUnresponsive(scada)
    /\ pc' = "scada_convert"
    /\ UNCHANGED <<scada_csv, meter_csv, curtail_csv, meter, curtail, shiftVars, mergeVars>>

\* lines 90-109: units, energy, field names
ScadaConvert ==
    /\ pc = "scada_convert"
    /\ scada' = ConvertAndRename(scada)
    /\ pc' = "meter_load"
    /\ UNCHANGED <<scada_csv, meter_csv, curtail_csv, meter, curtail, shiftVars, mergeVars>>

\* lines 115-116
MeterLoad ==
    /\ pc = "meter_load"
    /\ meter' = LoadParsed(meter_csv)
    /\ pc' = "meter_dedup"
    /\ UNCHANGED <<scada_csv, meter_csv, curtail_csv, scada, curtail, shiftVars, mergeVars>>

\* lines 119-124
MeterDropDuplicates ==
    /\ pc = "meter_dedup"
    /\ meter' = DropDuplicatesTimeAll(meter)
    /\ pc' = "meter_filter"
    /\ UNCHANGED <<scada_csv, meter_csv, curtail_csv, scada, curtail, shiftVars, mergeVars>>

\* line 128
MeterRangeFilter ==
    /\ pc = "meter_filter"
    /\ meter' = MeterFilter(meter)
    /\ pc' = "curtail_load"
    /\ UNCHANGED <<scada_csv, meter_csv, curtail_csv, scada, curtail, shiftVars, mergeVars>>

\* lines 138-139
CurtailLoad ==
    /\ pc = "curtail_load"
    /\ curtail' = LoadParsed(curtail_csv)
    /\ pc' = "curtail_dedup"
    /\ UNCHANGED <<scada_csv, meter_csv, curtail_csv, scada, meter, shiftVars, mergeVars>>

\* lines 140-143
CurtailDropDuplicates ==
    /\ pc = "curtail_dedup"
    /\ curtail' = DropDuplicatesTimeAll(curtail)
    /\ pc' = "curtail_dropna"
    /\ UNCHANGED <<scada_csv, meter_csv, curtail_csv, scada, meter, shiftVars, mergeVars>>

\* line 145; the reanalysis products loaded after it (lines 152-176) are
\* tables of their own
CurtailDropNa ==
    /\ pc = "curtail_dropna"
    /\ curtail' = DropNa(curtail)
    /\ pc' = "done"
    /\ UNCHANGED <<scada_csv, meter_csv, curtail_csv, scada, meter, shiftVars, mergeVars>>

NextPrepare ==
    \/ ScadaLoad
    \/ ScadaDropDuplicates
    \/ ScadaRangeFilter
    \/ ScadaFlagUnresponsive
    \/ ScadaConvert
    \/ MeterLoad
    \/ MeterDropDuplicates
    \/ MeterRangeFilter
    \/ CurtailLoad
    \/ CurtailDropDuplicates
    \/ CurtailDropNa

SpecPrepare == InitPrepare /\ [][NextPrepare]_vars

-----------------------------------------------------------------------------
(* Properties of dst_shifter *)

ShiftDone == pc = "done"

EuropeanCall == dst = TRUE /\ dst_subset # "American"

AllYearsInTable == \A i \in 1 .. Len(dt) : InTable(YearOf(dt[i]))

\* the transition instants of t's own year, read from the European table
SpringOf(t) == ToDatetimeShort(EuropeanDates.start[CHOOSE r \in 1 .. 12 : TableYears[r] = YearOf(t)])

FallOf(t) == ToDatetimeShort(EuropeanDates.end[CHOOSE r \in 1 .. 12 : TableYears[r] = YearOf(t)])

YearStartOf(t) == ToDatetime(YearOf(t), 1, 1, 0, 0, 0)

YearEndOf(t) == ToDatetime(YearOf(t) + 1, 1, 1, 0, 0, 0)

\* C1: with dst = False the call returns a series as long as dt in which every
\* timestamp t is replaced by t + num_hours hours.
C1_FlatModeReturnsShiftedSeries ==
    (ShiftDone /\ dst = FALSE) =>
        /\ ret.kind = "Series"
        /\ Len(ret.series) = Len(dt)
        /\ \A i \in 1 .. Len(dt) : ret.series[i] = dt[i] + num_hours * 3600

\* C3: with dst = True and the 'American' ruleset the call takes the constant
\* shift path: every timestamp t is returned as t + num_hours hours.
C3_AmericanIsFlatShift ==
    (ShiftDone /\ dst = TRUE /\ dst_subset = "American") =>
        /\ ret.kind = "Series"
        /\ Len(ret.series) = Len(dt)
        /\ \A i \in 1 .. Len(dt) : ret.series[i] = dt[i] + num_hours * 3600

\* C4: European ruleset, all years in the table: every timestamp t with
\* spring_start <= t < spring_end of its own year, the spring transition
\* instant included, is returned as t + (num_hours - 1) hours.
C4_SpringWindowInclusiveStart ==
    (ShiftDone /\ EuropeanCall /\ AllYearsInTable) =>
        /\ ret.kind = "Series"
        /\ \A i \in 1 .. Len(dt) :
              (SpringOf(dt[i]) <= dt[i] /\ dt[i] < FallOf(dt[i]) - 3600)
                  => ret.series[i] = dt[i] + (num_hours - 1) * 3600

\* C5: European ruleset, all years in the table: every timestamp t with
\* fall_transition - 1h <= t < end of its year, and every t with January 1
\* 00:00:00 <= t < spring transition, is returned as exactly t + num_hours hours.
C5_FallWindowsShiftedOnce ==
    (ShiftDone /\ EuropeanCall /\ AllYearsInTable) =>
        /\ ret.kind = "Series"
        /\ \A i \in 1 .. Len(dt) :
              (\/ (FallOf(dt[i]) - 3600 <= dt[i] /\ dt[i] < YearEndOf(dt[i]))
               \/ (YearStartOf(dt[i]) <= dt[i] /\ dt[i] < SpringOf(dt[i])))
                  => ret.series[i] = dt[i] + num_hours * 3600

\* C6: whenever dst = True, under either ruleset, and some timestamp's year is
\* not in the table, the call ends in an error and returns no series.
C6_UnsupportedYearIsAnError ==
    (ShiftDone /\ dst = TRUE /\ ~AllYearsInTable) => ret.kind = "IndexError"

\* C10 as stated: European ruleset, all years in the table: any two input
\* timestamps t1 < t2 come back with shift(t1) < shift(t2).
C10_OrderPreservedEverywhere ==
    (ShiftDone /\ EuropeanCall /\ AllYearsInTable) =>
        /\ ret.kind = "Series"
        /\ \A i, j \in 1 .. Len(dt) :
              dt[i] < dt[j] => ret.series[i] < ret.series[j]

\* the windows the shifter covers, spelled out: the open spring window, the
\* fall window up to 23:59:59 of December 31, January 1 up to the transition
InSpringWindow(t) == SpringOf(t) < t /\ t < FallOf(t) - 3600

InFallWindow1(t) == FallOf(t) - 3600 <= t /\ t < YearEndOf(t) - 1

InFallWindow2(t) == YearStartOf(t) <= t /\ t < SpringOf(t)

InSomeWindow(t) == InSpringWindow(t) \/ InFallWindow1(t) \/ InFallWindow2(t)

\* t1 before and t2 after the spring transition of one year, at most 1h apart
StraddlesSpring(t1, t2) ==
    /\ YearOf(t1) = YearOf(t2)
    /\ InFallWindow2(t1)
    /\ InSpringWindow(t2)
    /\ t2 - t1 <= 3600

\* C10 amended: European ruleset, all years in the table: two timestamps
\* t1 < t2 that each lie in a window the shifter covers come back with
\* shift(t1) < shift(t2), unless they straddle the spring transition of their
\* year by at most one hour: then shift(t2) - shift(t1) = t2 - t1 - 1h <= 0.
C10_OrderPreservedOffSpringEdge ==
    (ShiftDone /\ EuropeanCall /\ AllYearsInTable) =>
        /\ ret.kind = "Series"
        /\ \A i, j \in 1 .. Len(dt) :
              (/\ dt[i] < dt[j]
               /\ InSomeWindow(dt[i])
               /\ InSomeWindow(dt[j])
               /\ ~StraddlesSpring(dt[i], dt[j]))
                  => ret.series[i] < ret.series[j]
        /\ \A i, j \in 1 .. Len(dt) :
              StraddlesSpring(dt[i], dt[j])
                  => ret.series[j] - ret.series[i] = dt[j] - dt[i] - 3600

\* a returned European shift of a series holding the last second of a spring
\* window and the first instant of the fall window that follows it
C10_Witness ==
    /\ ShiftDone /\ EuropeanCall /\ AllYearsInTable
    /\ ret.kind = "Series"
    /\ \E i, j \in 1 .. Len(dt) :
          /\ InSpringWindow(dt[i])
          /\ InFallWindow1(dt[j])
          /\ dt[j] - dt[i] = 1
          /\ ret.series[j] - ret.series[i] = 3601

-----------------------------------------------------------------------------
(* Properties of EngieQC.prepare *)

\* the tables the turbines delivered, each row tagged with its turbine
TaggedInputs == Concat([i \in 1 .. Len(turbs) |-> TagID(turbs[i].rows, turbs[i].name)])

\* how many times row r occurs in df
Occurrences(df, r) == Cardinality({i \in 1 .. Len(df) : df[i] = r})

\* the position of the turbine named id in the input list
TurbIndex(id) == CHOOSE i \in 1 .. Len(turbs) : turbs[i].name = id

\* C2: the merged SCADA table holds the rows of the device tables, c1+...+cN
\* of them, each with its device's identifier, globally non-decreasing in
\* timestamp, rows of different devices with equal timestamps in input order.
C2_MergedIsSortedUnionOfInputs ==
    (pc = "done" /\ turbs # <<>>) =>
        /\ Len(qc_scada) = Len(TaggedInputs)
        /\ \A i \in 1 .. Len(qc_scada) :
              Occurrences(qc_scada, qc_scada[i]) = Occurrences(TaggedInputs, qc_scada[i])
        /\ \A i, j \in 1 .. Len(qc_scada) :
              i < j => /\ qc_scada[i].time <= qc_scada[j].time
                       /\ (qc_scada[i].time = qc_scada[j].time /\ qc_scada[i].ID # qc_scada[j].ID)
                             => TurbIndex(qc_scada[i].ID) < TurbIndex(qc_scada[j].ID)

-----------------------------------------------------------------------------
(* Properties of Project_Engie.prepare *)

\* the identifier column, before and after the rename of line 106
RowID(r) == IF "id" \in DOMAIN r THEN r.id ELSE r.ID

\* row i of a file is the first of the file with its (timestamp, ID)
FirstOfKey(csv, i) ==
    ~\E j \in 1 .. i - 1 :
        /\ ParseTime(csv[j].time) = ParseTime(csv[i].time)
        /\ csv[j].ID = csv[i].ID

\* row i of a file is the only one of the file with its timestamp
OnlyOfTime(csv, i) ==
    ~\E j \in 1 .. Len(csv) : j # i /\ ParseTime(csv[j].time) = ParseTime(csv[i].time)

\* the three metrics of a file row are numbers inside the inclusive bounds
WithinBounds(r) ==
    /\ r.wmet_wdspd_avg # NaN /\ 0 <= r.wmet_wdspd_avg /\ r.wmet_wdspd_avg <= 40
    /\ r.wtur_W_avg # NaN /\ -1000 <= r.wtur_W_avg /\ r.wtur_W_avg <= 2200
    /\ r.wmet_wDir_avg # NaN /\ 0 <= r.wmet_wDir_avg /\ r.wmet_wDir_avg <= 360

RowsOf(df) == {df[i].row : i \in 1 .. Len(df)}

ScadaDeduplicated == pc \notin {"scada_load", "scada_dedup"}

ScadaFiltered == pc \notin {"scada_load", "scada_dedup", "scada_filter"}

MeterDeduplicated == pc \in {"meter_filter", "curtail_load", "curtail_dedup", "curtail_dropna", "done"}

CurtailDeduplicated == pc \in {"curtail_dropna", "done"}

\* C7: from the deduplication on, the SCADA table holds no two rows with one
\* (timestamp, ID), every row is the first of the file with its pair, and once
\* filtered it holds exactly the first occurrences that pass the filters; the
\* meter and curtailment tables hold no two rows with one timestamp and no row
\* whose timestamp occurs more than once in the file.
C7_DeduplicationInvariant ==
    /\ ScadaDeduplicated =>
          /\ \A i, j \in 1 .. Len(scada) :
                i < j => ~(scada[i].time = scada[j].time /\ RowID(scada[i]) = RowID(scada[j]))
          /\ \A i \in 1 .. Len(scada) :
                /\ scada[i].row \in 1 .. Len(scada_csv)
                /\ ParseTime(scada_csv[scada[i].row].time) = scada[i].time
                /\ scada_csv[scada[i].row].ID = RowID(scada[i])
                /\ FirstOfKey(scada_csv, scada[i].row)
    /\ ScadaFiltered =>
          /\ RowsOf(scada) = {i \in 1 .. Len(scada_csv) :
                                FirstOfKey(scada_csv, i) /\ WithinBounds(scada_csv[i])}
          /\ Len(scada) = Cardinality(RowsOf(scada))
    /\ MeterDeduplicated =>
          /\ \A i, j \in 1 .. Len(meter) : i < j => meter[i].time # meter[j].time
          /\ \A i \in 1 .. Len(meter) :
                /\ ParseTime(meter_csv[meter[i].row].time) = meter[i].time
                /\ OnlyOfTime(meter_csv, meter[i].row)
    /\ CurtailDeduplicated =>
          /\ \A i, j \in 1 .. Len(curtail) : i < j => curtail[i].time # curtail[j].time
          /\ \A i \in 1 .. Len(curtail) :
                /\ ParseTime(curtail_csv[curtail[i].row].time) = curtail[i].time
                /\ OnlyOfTime(curtail_csv, curtail[i].row)

\* the run is over; the SCADA file held one (timestamp, ID) twice, written in
\* two ways and with different readings, and the table holds the first copy;
\* the meter file held a row that survived
C7_Witness ==
    /\ pc = "done"
    /\ \E i, j \in 1 .. Len(scada_csv) :
          /\ i < j
          /\ scada_csv[i].time # scada_csv[j].time
          /\ ParseTime(scada_csv[i].time) = ParseTime(scada_csv[j].time)
          /\ scada_csv[i].ID = scada_csv[j].ID
          /\ scada_csv[i].wtur_W_avg # scada_csv[j].wtur_W_avg
          /\ WithinBounds(scada_csv[j])
          /\ \E n \in 1 .. Len(scada) :
                scada[n].row = i /\ scada[n].wtur_W_avg = 1000 * scada_csv[i].wtur_W_avg
    /\ Len(meter) = 1

\* C8: a deduplicated SCADA row reaches the unresponsive-sensor detector, and
\* the output, if and only if its wind speed is in [0, 40], its power in
\* [-1000, 2200] and its wind direction in [0, 360]; the rows that reach the
\* detector are whole (nothing nulled), and when the detector is about to run
\* the filter has been applied to every row.
C8_RangeFilterBeforeDetector ==
    /\ ScadaFiltered =>
          RowsOf(scada) = {i \in 1 .. Len(scada_csv) :
                              FirstOfKey(scada_csv, i) /\ WithinBounds(scada_csv[i])}
    /\ pc = "scada_flag" =>
          \A i \in 1 .. Len(scada) :
              /\ scada[i].wmet_wdspd_avg = scada_csv[scada[i].row].wmet_wdspd_avg
              /\ scada[i].wtur_W_avg = scada_csv[scada[i].row].wtur_W_avg
              /\ scada[i].wmet_wDir_avg = scada_csv[scada[i].row].wmet_wDir_avg
              /\ WithinBounds(scada[i])
              /\ \A j \in 1 .. Len(scada) : i < j => scada[i].row < scada[j].row

\* the detector is about to run on a table that kept a row on the upper bounds
\* while the file also held a row beyond a bound, which is gone
C8_Witness ==
    /\ pc = "scada_flag"
    /\ \E i \in 1 .. Len(scada) :
          /\ scada[i].wmet_wdspd_avg = 40
          /\ scada[i].wtur_W_avg = 2200
          /\ scada[i].wmet_wDir_avg = 360
    /\ \E i \in 1 .. Len(scada_csv) :
          /\ scada_csv[i].wmet_wdspd_avg = 41
          /\ i \notin RowsOf(scada)

\* the positions of df that belong to one turbine, in row order
DeviceRows(df, id) == Pick(df, {i \in 1 .. Len(df) : df[i].ID = id}, Len(df))

\* the readings the file gave for the rows of df
FileColumn(df, name) == [i \in 1 .. Len(df) |-> scada_csv[df[i].row][name]]

\* the rows of one turbine come in ascending time
TimeOrdered(df) == \A i, j \in 1 .. Len(df) : i < j => df[i].time < df[j].time

\* after the detector step, for column name: of each turbine's own readings,
\* taken in time order, exactly those in a run of 3 or more equal readings
\* are null
FlaggedPerDevice(name) ==
    \A id \in {scada[i].ID : i \in 1 .. Len(scada)} :
        LET rows == DeviceRows(scada, id)
            read == FileColumn(rows, name)
            flag == UnresponsiveFlag(read, 3)
        IN  TimeOrdered(rows) =>
                \A n \in 1 .. Len(rows) :
                    rows[n][name] = IF flag[n] THEN NaN ELSE read[n]

\* C9: after the detector step every run of at least 3 time-consecutive equal
\* wind-speed (wind-direction) readings of one device is null, no reading is
\* null because of readings of another device, and no row was removed.
C9_FrozenSensorPerDevice ==
    pc = "scada_convert" =>
        /\ FlaggedPerDevice("wmet_wdspd_avg")
        /\ FlaggedPerDevice("wmet_wDir_avg")
        /\ Len(scada) = Cardinality({i \in 1 .. Len(scada_csv) :
                                        FirstOfKey(scada_csv, i) /\ WithinBounds(scada_csv[i])})

=============================================================================
